---- MODULE Spec2Model ----
(***************************************************************************)
(* Tiratana report generator: the chunker (utils.ts, splitTextIntoChunks)  *)
(* and the incremental report compiler (report-generator.ts,               *)
(* compileReportFromPreliminaryAnalysis).                                  *)
(*                                                                         *)
(* Strings are sequences of characters.  A report is a sequence of tokens: *)
(* " " is a whitespace character, every other token is visible text.       *)
(***************************************************************************)
EXTENDS Integers, Sequences, FiniteSets, TLC

VARIABLES
  stack,          \* activations of compileReportFromPreliminaryAnalysis, innermost last
  calls,          \* history of the generateText calls issued by the compiler
  args,           \* arguments of the outermost compile invocation
  result,         \* value the outermost invocation resolved with
  cpc,            \* "running" | "returned"
  text,           \* splitTextIntoChunks: argument text
  chunkSizeChars, \* splitTextIntoChunks: argument chunkSizeChars
  overlapArg,     \* splitTextIntoChunks: argument overlapChars, <<>> when omitted
  chunks,         \* splitTextIntoChunks: returned array
  spc,            \* "idle" | "call" | "returned" | "diverged"
  fs,             \* file-system snapshot: kind of every path
  collected,      \* getAllFilesInFolder called on its own: state and outcome
  gen,            \* generateReport: program counter and locals
  llm,            \* history of the generateText calls of the analysis and standardization stages
  output,         \* value generateReport resolved with
  walk,           \* getAllFilesInFolder with its stat and readdir operations in flight
  reads,          \* getFileContentsFromFiles with its readFile operations in flight
  cfg,            \* initConfig: program counter, process.env, the .env file, prompts
  cli,             \* run (index.ts): program counter, arguments, files written, exit status
  loader          \* a Loader object and the position of Loader.load on it

vars == <<stack, calls, args, result, cpc, text, chunkSizeChars, overlapArg, chunks, spc,
          fs, collected, gen, llm, output, walk, reads,
          cfg, cli, loader>>

compileVars == <<stack, calls, args, result, cpc>>
splitVars == <<text, chunkSizeChars, overlapArg, chunks, spc>>
reportVars == <<fs, collected, gen, llm, output>>
auxVars == <<walk, reads, cfg, cli, loader>>

(***************************************************************************)
(* Program constants (constants.ts)                                        *)
(***************************************************************************)
DEFAULT_CHUNK_OVERLAP_CHARS == 128
DEFAULT_PRELIMINARY_ANALYSIS_CHUNK_SIZE == 2048

(***************************************************************************)
(* Bounds of the model                                                     *)
(***************************************************************************)
MaxTextLen == 5     \* longest text handed to the chunker on its own
MaxChunkSize == 4   \* largest chunkSizeChars handed to the chunker on its own
MaxOverlap == 3     \* largest explicit overlapChars
MaxDocChunks == 3   \* longest preliminary document, in compilation chunks
MaxCalls == 8       \* cap on generateText calls of one compile invocation

Min(a, b) == IF a < b THEN a ELSE b

(***************************************************************************)
(* String helpers                                                          *)
(***************************************************************************)
\* variant: only the empty string counts as blank
IsBlank_EmptyOnly(s) == Len(s) = 0

\* String.prototype.trim() leaves nothing: every character is whitespace
IsBlank(s) == \A i \in 1..Len(s) : s[i] = " "

\* String.prototype.slice(from, to) with 0 <= from, 0-based, end-exclusive
Slice(s, from, to) == SubSeq(s, from + 1, Min(to, Len(s)))

\* Math.ceil(chunkSizeChars * 0.1)
CeilTenth(c) == (c + 9) \div 10

(***************************************************************************)
(* splitTextIntoChunks (utils.ts)                                          *)
(***************************************************************************)
\* variant: an omitted overlapChars means no overlap
OverlapParam_None(o) == IF o = <<>> THEN 0 ELSE o[1]

\* the overlapChars parameter with its default value
OverlapParam(o) == IF o = <<>> THEN DEFAULT_CHUNK_OVERLAP_CHARS ELSE o[1]

\* variant: an overlap that is too large is dropped altogether
ClampOverlap_Zero(c, o) == IF o >= c THEN 0 ELSE o

\* if (overlapChars >= chunkSizeChars) overlapChars = Math.ceil(chunkSizeChars * 0.1)
ClampOverlap(c, o) == IF o >= c THEN CeilTenth(c) ELSE o

\* variant: the window start moves on by a whole chunk
Advance_NoOverlap(i, c, o) == i + c

\* i += chunkSizeChars - overlapChars
Advance(i, c, o) == i + (c - o)

\* variant: the text is returned whole only when the chunk size exceeds it by two
ReturnsWhole_Strict(t, c) == c > Len(t) + 1

\* variant: a text exactly as long as the chunk size is returned whole too
ReturnsWhole_Inclusive(t, c) == c >= Len(t)

\* the text is returned as one chunk without entering the loop
ReturnsWhole(t, c) == c > Len(t)

\* variant: the window ends one character early
ChunkAt_Short(t, i, c) == Slice(t, i, i + c - 1)

\* text.slice(i, i + chunkSizeChars)
ChunkAt(t, i, c) == Slice(t, i, i + c)

\* while (i < text.length) { chunks.push(text.slice(i, i + c)); i += c - o }
RECURSIVE SplitLoop(_, _, _, _, _)
SplitLoop(t, c, o, i, acc) ==
  IF i < Len(t)
    THEN SplitLoop(t, c, o, Advance(i, c, o), Append(acc, ChunkAt(t, i, c)))
    ELSE acc

\* the loop never leaves: i does not move forward
Stalls(t, c, oa) ==
  /\ ~(Len(t) = 0 \/ IsBlank(t))
  /\ ~ReturnsWhole(t, c)
  /\ Advance(0, c, ClampOverlap(c, OverlapParam(oa))) <= 0

splitTextIntoChunks(t, c, oa) ==
  IF Len(t) = 0 \/ IsBlank(t) THEN <<>>
  ELSE IF ReturnsWhole(t, c) THEN <<t>>
  ELSE SplitLoop(t, c, ClampOverlap(c, OverlapParam(oa)), 0, <<>>)

(***************************************************************************)
(* Preliminary documents handed to the compiler.  A document is named by   *)
(* its length and by whether it is whitespace only; DocText gives its      *)
(* characters.                                                             *)
(***************************************************************************)
CompileStride == DEFAULT_PRELIMINARY_ANALYSIS_CHUNK_SIZE - DEFAULT_CHUNK_OVERLAP_CHARS

DocLens ==
  {0, 1, DEFAULT_PRELIMINARY_ANALYSIS_CHUNK_SIZE - 1,
   DEFAULT_PRELIMINARY_ANALYSIS_CHUNK_SIZE,
   DEFAULT_PRELIMINARY_ANALYSIS_CHUNK_SIZE + 1}
  \cup {k * CompileStride + 1 : k \in 2..(MaxDocChunks - 1)}

Docs == {d \in [len : DocLens, blank : BOOLEAN] : d.len = 0 => d.blank}

DocText(d) == [i \in 1..d.len |-> IF d.blank THEN " " ELSE "a"]

Directories == {"repo"}

\* splitTextIntoChunks(preliminaryAnalysis, DEFAULT_PRELIMINARY_ANALYSIS_CHUNK_SIZE, undefined, verbose)
CompileChunks ==
  [d \in Docs |->
     splitTextIntoChunks(DocText(d), DEFAULT_PRELIMINARY_ANALYSIS_CHUNK_SIZE, <<>>)]

NChunks(d) == Len(CompileChunks[d])

(***************************************************************************)
(* The file system.  A name is a sequence of pieces ("b.log" is            *)
(* <<"b", ".log">>, a line break in a name is the piece "\n"), a path a    *)
(* sequence of names starting at the root.                                 *)
(***************************************************************************)
IGNORE_DIRECTORIES ==
  {<<".git">>, <<"node_modules">>, <<"dist">>, <<"build">>, <<"venv">>,
   <<"__pycache__">>, <<"target">>, <<"bin">>, <<"obj">>, <<"out">>}

IGNORE_EXTENSIONS ==
  {<<".report", ".txt">>, <<".log">>, <<".class">>, <<".pyc">>, <<".o">>, <<".out">>,
   <<".exe">>, <<".dll">>, <<".so">>, <<".a">>, <<".dylib">>, <<".jar">>, <<".war">>,
   <<".ear">>, <<".min", ".js">>, <<".map">>, <<".lock">>, <<".tsbuildinfo">>}

Root == <<<<"repo">>>>

\* the entries a directory may hold, in the order readdir lists them
Entries(p) ==
  IF p = Root THEN << <<".git">>, <<"lib">>, <<"b", ".log">>, <<"n", "\n", ".ts">> >>
  ELSE IF p = Root \o << <<".git">> >> THEN << <<"config">> >>
  ELSE IF p = Root \o << <<"lib">> >>
    THEN << <<"c", ".ts">>, <<"d", ".lock">>, <<"node_modules">> >>
  ELSE IF p = Root \o << <<"lib">>, <<"node_modules">> >> THEN << <<"e", ".ts">> >>
  ELSE IF p = Root \o << <<"b", ".log">> >> THEN << <<"g", ".ts">> >>
  ELSE << >>

RECURSIVE PathsUnder(_)
PathsUnder(p) ==
  {p} \cup UNION {PathsUnder(Append(p, Entries(p)[i])) : i \in 1..Len(Entries(p))}

AllPaths == PathsUnder(Root)

Parent(p) == SubSeq(p, 1, Len(p) - 1)

Snapshots ==
  {f \in [AllPaths -> {"none", "file", "dir"}] :
     \A p \in AllPaths \ {Root} : f[p] # "none" => f[Parent(p)] = "dir"}

(***************************************************************************)
(* getAllFilesInFolder (report-generator.ts)                               *)
(***************************************************************************)
\* fs.readdir(folderPath): the names present in the directory, in listing order
RECURSIVE Present(_, _, _)
Present(f, p, i) ==
  IF i > Len(Entries(p)) THEN <<>>
  ELSE (IF f[Append(p, Entries(p)[i])] # "none" THEN <<Entries(p)[i]>> ELSE <<>>)
         \o Present(f, p, i + 1)

readdir(f, p) == Present(f, p, 1)

\* String.prototype.endsWith
EndsWith(name, ext) ==
  /\ Len(ext) <= Len(name)
  /\ SubSeq(name, Len(name) - Len(ext) + 1, Len(name)) = ext

\* variant: no directory name is ignored
IgnoresDirectory_None(name) == FALSE

\* IGNORE_DIRECTORIES.includes(file)
IgnoresDirectory(name) == name \in IGNORE_DIRECTORIES

\* IGNORE_EXTENSIONS.some((ext) => file.endsWith(ext))
IgnoresFile(name) == \E ext \in IGNORE_EXTENSIONS : EndsWith(name, ext)

\* lines 70-77: stat fails, or the path is not a directory
RootRejects(f, p) == f[p] # "dir"

\* lines 79-99, for a folderPath that passed the check: the files found and
\* the directories read, both in the order of the listing; Promise.all keeps
\* the order of the entries whatever order their stats complete in
RECURSIVE Walk(_, _), WalkEntries(_, _, _)
Walk(f, p) ==
  LET sub == WalkEntries(f, p, readdir(f, p))
  IN  [files |-> sub.files, read |-> <<p>> \o sub.read]

WalkEntries(f, p, names) ==
  IF names = <<>> THEN [files |-> <<>>, read |-> <<>>]
  ELSE LET name == Head(names)
           filePath == Append(p, name)
           here == IF f[filePath] = "dir"
                     THEN IF IgnoresDirectory(name)
                            THEN [files |-> <<>>, read |-> <<>>]
                            ELSE Walk(f, filePath)
                     ELSE IF IgnoresFile(name)
                            THEN [files |-> <<>>, read |-> <<>>]
                            ELSE [files |-> <<filePath>>, read |-> <<>>]
           rest == WalkEntries(f, p, Tail(names))
       IN  [files |-> here.files \o rest.files, read |-> here.read \o rest.read]

getAllFilesInFolder(f, p) ==
  IF RootRejects(f, p)
    THEN [ok |-> FALSE, files |-> <<>>, read |-> <<>>]
    ELSE [ok |-> TRUE, files |-> Walk(f, p).files, read |-> Walk(f, p).read]

(***************************************************************************)
(* compileReportFromPreliminaryAnalysis (report-generator.ts)              *)
(***************************************************************************)
\* `# Tiratana: Codebase Analysis Report  #### Codebase: ${directory}`
ReportHeader(directory) == <<"# Tiratana: Codebase Analysis Report", directory>>

\* if (runningReport && runningReport.trim() === "") runningReport = header
SeedRunningReport(runningReport, directory) ==
  IF runningReport # <<>> /\ IsBlank(runningReport)
    THEN ReportHeader(directory)
    ELSE runningReport

\* if (lastIndex < startingIndex) { lastIndex += 1; continue; }
SkipsChunk(lastIndex, startingIndex) == lastIndex < startingIndex

\* variant: the recursive call starts over from the first chunk
ResumeIndex_Restart(lastIndex) == 0

\* variant: the recursive call starts at the chunk whose call failed
ResumeIndex_Retry(lastIndex) == lastIndex

\* startingIndex of the recursive call in the catch block: lastIndex + 1
ResumeIndex(lastIndex) == lastIndex + 1

\* if (lastIndex < preliminaryAnalysisChunks.length) in the catch block
ResumesAfterError(lastIndex, nchunks) == lastIndex < nchunks

CompileErrorMessage ==
  <<"Failed to compile report from preliminary analysis due to unexpected system error.">>

\* The text the service answers with when the call for chunk k succeeds.  The
\* service is deterministic: the answer is the running report of the prompt
\* augmented by what chunk k contributes.
generateText(k, runningReport) == Append(runningReport, ToString(k))

\* a fresh activation: parameters bound, body not yet entered
Frame(directory, doc, runningReport, startingIndex) ==
  [directory |-> directory, preliminaryAnalysis |-> doc,
   runningReport |-> runningReport, startingIndex |-> startingIndex,
   lastIndex |-> 0, it |-> 0, chunkProcessingTimes |-> 0, pc |-> "entry"]

Top == stack[Len(stack)]

SetTop(f) == [stack EXCEPT ![Len(stack)] = f]

\* the running report of a run started as generateReport starts it (running
\* report "", index 0) after its first k calls, all of them successful
RECURSIVE UninterruptedReport(_, _)
UninterruptedReport(directory, k) ==
  IF k = 0 THEN SeedRunningReport(<<>>, directory)
  ELSE generateText(k - 1, UninterruptedReport(directory, k - 1))

\* (runningReport, startingIndex) pairs compile is invoked with from outside:
\* omitted / empty as generateReport passes them, a whitespace-only running
\* report, and the states of an earlier run that is being resumed
InitialStates(directory, d) ==
  {<<<<>>, 0>>, <<<<" ">>, 0>>}
  \cup {<<UninterruptedReport(directory, k), k>> : k \in 1..NChunks(d)}

\* generateReport and getAllFilesInFolder are not running
ReportIdle ==
  /\ fs = [p \in AllPaths |-> "none"]
  /\ collected = [pc |-> "idle", files |-> <<>>, read |-> <<>>]
  /\ gen = [pc |-> "idle"]
  /\ llm = <<>>
  /\ output = [set |-> FALSE, caught |-> FALSE]

\* no other operation is running
AuxIdle ==
  /\ walk = [pc |-> "idle"]
  /\ reads = [pc |-> "idle"]
  /\ cfg = [pc |-> "idle"]
  /\ cli = [pc |-> "idle"]
  /\ loader = [pc |-> "idle"]

CompileInit ==
  /\ \E directory \in Directories, d \in Docs :
       \E st \in InitialStates(directory, d) :
         /\ args = [directory |-> directory, preliminaryAnalysis |-> d,
                    runningReport |-> st[1], startingIndex |-> st[2]]
         /\ stack = <<Frame(directory, d, st[1], st[2])>>
  /\ calls = <<>>
  /\ result = <<>>
  /\ cpc = "running"

SplitIdle ==
  /\ text = <<>>
  /\ chunkSizeChars = 1
  /\ overlapArg = <<>>
  /\ chunks = <<>>
  /\ spc = "idle"

\* lines 196-212: seed the header, reset lastIndex, split the document
Enter ==
  /\ cpc = "running"
  /\ Top.pc = "entry"
  /\ stack' = SetTop([Top EXCEPT
                 !.runningReport = SeedRunningReport(Top.runningReport, Top.directory),
                 !.lastIndex = 0,
                 !.it = 0,
                 !.pc = "loop"])
  /\ UNCHANGED <<calls, args, result, cpc, splitVars, reportVars, auxVars>>

\* lines 216-219: a chunk before startingIndex is passed over
SkipChunk ==
  /\ cpc = "running"
  /\ Top.pc = "loop"
  /\ Top.it < NChunks(Top.preliminaryAnalysis)
  /\ SkipsChunk(Top.lastIndex, Top.startingIndex)
  /\ stack' = SetTop([Top EXCEPT !.lastIndex = @ + 1, !.it = @ + 1])
  /\ UNCHANGED <<calls, args, result, cpc, splitVars, reportVars, auxVars>>

\* lines 231-262: the call for the chunk under the iterator succeeds
ChunkSucceeds ==
  /\ cpc = "running"
  /\ Top.pc = "loop"
  /\ Top.it < NChunks(Top.preliminaryAnalysis)
  /\ ~SkipsChunk(Top.lastIndex, Top.startingIndex)
  /\ Len(calls) < MaxCalls
  /\ calls' = Append(calls, [chunk |-> Top.it, runningReport |-> Top.runningReport,
                            ok |-> TRUE])
  /\ stack' = SetTop([Top EXCEPT
                 !.runningReport = generateText(Top.it, Top.runningReport),
                 !.lastIndex = @ + 1,
                 !.it = @ + 1,
                 !.chunkProcessingTimes = @ + 1])
  /\ UNCHANGED <<args, result, cpc, splitVars, reportVars, auxVars>>

\* lines 250-256 throw, lines 274-289: the call for the chunk under the
\* iterator fails and the catch block resumes or gives up
ChunkFails ==
  /\ cpc = "running"
  /\ Top.pc = "loop"
  /\ Top.it < NChunks(Top.preliminaryAnalysis)
  /\ ~SkipsChunk(Top.lastIndex, Top.startingIndex)
  /\ Len(calls) < MaxCalls
  /\ calls' = Append(calls, [chunk |-> Top.it, runningReport |-> Top.runningReport,
                            ok |-> FALSE])
  /\ IF ResumesAfterError(Top.lastIndex, NChunks(Top.preliminaryAnalysis))
       THEN /\ stack' = Append(SetTop([Top EXCEPT !.pc = "awaiting"]),
                               Frame(Top.directory, Top.preliminaryAnalysis,
                                     Top.runningReport, ResumeIndex(Top.lastIndex)))
            /\ UNCHANGED <<result, cpc>>
       ELSE /\ stack' = <<>>
            /\ result' = CompileErrorMessage
            /\ cpc' = "returned"
  /\ UNCHANGED <<args, splitVars, reportVars, auxVars>>

\* line 273: the chunk sequence is exhausted; every activation below returns
\* the value of the recursive call it made
ReturnReport ==
  /\ cpc = "running"
  /\ Top.pc = "loop"
  /\ Top.it >= NChunks(Top.preliminaryAnalysis)
  /\ result' = Top.runningReport
  /\ stack' = <<>>
  /\ cpc' = "returned"
  /\ UNCHANGED <<calls, args, splitVars, reportVars, auxVars>>

Init == CompileInit /\ SplitIdle /\ ReportIdle /\ AuxIdle

Next == Enter \/ SkipChunk \/ ChunkSucceeds \/ ChunkFails \/ ReturnReport

Spec == Init /\ [][Next]_vars

\* the compiler is never suspended for ever: a pending step is eventually taken
FairSpec == Spec /\ WF_vars(Next)

(***************************************************************************)
(* The chunker on its own: splitTextIntoChunks applied to an input         *)
(***************************************************************************)
Alphabet == {"a", "b", " "}

\* the text of the unit tests of splitTextIntoChunks
ExampleText == <<"a", "b", "c", "d", "e", "f", "g", "h", "i", "j">>

Texts == UNION {[1..n -> Alphabet] : n \in 0..MaxTextLen} \cup {ExampleText}

OverlapArgs == {<<>>} \cup {<<o>> : o \in 0..MaxOverlap}

CompileIdle ==
  /\ stack = <<>>
  /\ calls = <<>>
  /\ args = [directory |-> "repo", preliminaryAnalysis |-> [len |-> 0, blank |-> TRUE],
             runningReport |-> <<>>, startingIndex |-> 0]
  /\ result = <<>>
  /\ cpc = "idle"

\* a chunk size above the default overlap, and a text longer than it
LargeChunkSize == DEFAULT_CHUNK_OVERLAP_CHARS + 2

LongText == [i \in 1..(LargeChunkSize + 2) |-> IF i % 2 = 0 THEN "a" ELSE "b"]

LargeOverlapArgs ==
  {<<>>, <<CeilTenth(LargeChunkSize)>>, <<DEFAULT_CHUNK_OVERLAP_CHARS>>, <<LargeChunkSize>>}

SplitInit ==
  /\ \/ /\ text \in Texts
        /\ chunkSizeChars \in 1..MaxChunkSize
        /\ overlapArg \in OverlapArgs
     \/ /\ text \in {LongText, SubSeq(LongText, 1, LargeChunkSize)}
        /\ chunkSizeChars = LargeChunkSize
        /\ overlapArg \in LargeOverlapArgs
  /\ chunks = <<>>
  /\ spc = "call"

\* the call returns the array of chunks
SplitReturns ==
  /\ spc = "call"
  /\ ~Stalls(text, chunkSizeChars, overlapArg)
  /\ chunks' = splitTextIntoChunks(text, chunkSizeChars, overlapArg)
  /\ spc' = "returned"
  /\ UNCHANGED <<text, chunkSizeChars, overlapArg, compileVars, reportVars, auxVars>>

\* the while loop never ends: the call does not return
SplitDiverges ==
  /\ spc = "call"
  /\ Stalls(text, chunkSizeChars, overlapArg)
  /\ spc' = "diverged"
  /\ UNCHANGED <<text, chunkSizeChars, overlapArg, chunks, compileVars, reportVars, auxVars>>

SplitNext == SplitReturns \/ SplitDiverges

SplitStart == CompileIdle /\ SplitInit /\ ReportIdle /\ AuxIdle

SplitSpec == SplitStart /\ [][SplitNext]_vars

(***************************************************************************)
(* The file collector on its own: getAllFilesInFolder on a snapshot        *)
(***************************************************************************)
CollectInit ==
  /\ fs \in Snapshots
  /\ collected = [pc |-> "call", files |-> <<>>, read |-> <<>>]
  /\ gen = [pc |-> "idle"]
  /\ llm = <<>>
  /\ output = [set |-> FALSE, caught |-> FALSE]

\* the promise resolves with the list of files
CollectResolves ==
  /\ collected.pc = "call"
  /\ getAllFilesInFolder(fs, Root).ok
  /\ collected' = [pc |-> "resolved",
                   files |-> getAllFilesInFolder(fs, Root).files,
                   read |-> getAllFilesInFolder(fs, Root).read]
  /\ UNCHANGED <<fs, gen, llm, output, compileVars, splitVars, auxVars>>

\* the promise rejects: the root is missing or not a directory
CollectRejects ==
  /\ collected.pc = "call"
  /\ ~getAllFilesInFolder(fs, Root).ok
  /\ collected' = [collected EXCEPT !.pc = "rejected"]
  /\ UNCHANGED <<fs, gen, llm, output, compileVars, splitVars, auxVars>>

CollectNext == CollectResolves \/ CollectRejects

CollectStart == CompileIdle /\ SplitIdle /\ CollectInit /\ AuxIdle

CollectSpec == CollectStart /\ [][CollectNext]_vars

(***************************************************************************)
(* getAllFilesInFolder with its asynchronous operations: every stat and    *)
(* readdir is a promise that settles at a time of its own                  *)
(***************************************************************************)
\* most entries of a snapshot the concurrent walk is run on
MaxEntries == 4

WalkSnapshots ==
  {f \in Snapshots :
     /\ f[Root] = "dir"
     /\ Cardinality({p \in AllPaths \ {Root} : f[p] # "none"}) <= MaxEntries}

\* the paths of the entries readdir lists for p
Children(f, p) == [k \in 1..Len(readdir(f, p)) |-> Append(p, readdir(f, p)[k])]

RECURSIVE Flat(_, _)
\* allFiles.flat() over the results of the map callbacks taken in the given order
Flat(task, paths) ==
  IF paths = <<>> THEN <<>> ELSE task[Head(paths)].files \o Flat(task, Tail(paths))

IsChildOf(p) == [q \in AllPaths |-> Len(q) = Len(p) + 1 /\ SubSeq(q, 1, Len(p)) = p]

\* variant: the results are joined in the order their promises resolved
JoinOrder_Completion(f, p, completed) ==
  LET of == IsChildOf(p)
      IsChild(q) == of[q]
  IN  SelectSeq(completed, IsChild)

\* Promise.all resolves with the results in the order of the array it was given
JoinOrder(f, p, completed) == Children(f, p)

WalkInit ==
  /\ fs \in WalkSnapshots
  /\ reads = [pc |-> "idle"]
  /\ cfg = [pc |-> "idle"]
  /\ cli = [pc |-> "idle"]
  /\ loader = [pc |-> "idle"]
  /\ walk = [pc |-> "walking",
             task |-> [p \in AllPaths |->
                         [st |-> IF p = Root THEN "check" ELSE "idle", files |-> <<>>]],
             completed |-> <<>>]
  /\ collected = [pc |-> "idle", files |-> <<>>, read |-> <<>>]
  /\ gen = [pc |-> "idle"]
  /\ llm = <<>>
  /\ output = [set |-> FALSE, caught |-> FALSE]

\* lines 70-77 of the call for p: its stat has settled and p is a directory
CheckSettles(p) ==
  /\ walk.pc = "walking"
  /\ walk.task[p].st = "check"
  /\ ~RootRejects(fs, p)
  /\ walk' = [walk EXCEPT !.task[p].st = "readdir"]

\* line 79: the listing of p has arrived; one callback per entry starts and
\* awaits the stat of its entry
ReaddirSettles(p) ==
  /\ walk.pc = "walking"
  /\ walk.task[p].st = "readdir"
  /\ walk' = [walk EXCEPT
                !.task = [q \in AllPaths |->
                            IF q = p THEN [st |-> "children", files |-> <<>>]
                            ELSE IF \E k \in 1..Len(Children(fs, p)) : Children(fs, p)[k] = q
                              THEN [st |-> "stat", files |-> <<>>]
                              ELSE @[q]]]

\* lines 83-96: the stat of entry p has settled; the callback returns [] or
\* the path, or calls getAllFilesInFolder on the subdirectory
StatSettles(p) ==
  /\ walk.pc = "walking"
  /\ walk.task[p].st = "stat"
  /\ IF fs[p] = "dir"
       THEN IF IgnoresDirectory(p[Len(p)])
              THEN walk' = [walk EXCEPT !.task[p] = [st |-> "done", files |-> <<>>],
                                        !.completed = Append(@, p)]
              ELSE walk' = [walk EXCEPT !.task[p].st = "check"]
       ELSE walk' = [walk EXCEPT
                       !.task[p] = [st |-> "done",
                                    files |-> IF IgnoresFile(p[Len(p)]) THEN <<>> ELSE <<p>>],
                       !.completed = Append(@, p)]

\* lines 81, 99: every callback of p has resolved; Promise.all resolves and
\* the call for p returns the flattened results
AllSettled(p) ==
  /\ walk.pc = "walking"
  /\ walk.task[p].st = "children"
  /\ \A k \in 1..Len(Children(fs, p)) : walk.task[Children(fs, p)[k]].st = "done"
  /\ walk' = [walk EXCEPT
                !.task[p] = [st |-> "done",
                             files |-> Flat(walk.task, JoinOrder(fs, p, walk.completed))],
                !.completed = Append(@, p),
                !.pc = IF p = Root THEN "resolved" ELSE @]

\* the walk touches nothing but its own operations
WalkFrame ==
  UNCHANGED <<fs, collected, gen, llm, output, reads, cfg, cli, loader, compileVars, splitVars>>

WalkNext ==
  \/ \E p \in AllPaths : CheckSettles(p) /\ WalkFrame
  \/ \E p \in AllPaths : ReaddirSettles(p) /\ WalkFrame
  \/ \E p \in AllPaths : StatSettles(p) /\ WalkFrame
  \/ \E p \in AllPaths : AllSettled(p) /\ WalkFrame

WalkStart == CompileIdle /\ SplitIdle /\ WalkInit

WalkSpec == WalkStart /\ [][WalkNext]_vars

(***************************************************************************)
(* Text of the analysis stage: a sequence of pieces, each a record with    *)
(* the piece's characters and, where the piece embeds a path, that path    *)
(***************************************************************************)
Txt(s) == [t |-> s, file |-> <<>>]

WS == Txt("\n\n")

\* variant: the marker does not name the file
FileHeading_NoPath(file) == [t |-> "## File: ", file |-> <<>>]

\* `## File: ${file}`
FileHeading(file) == [t |-> "## File: ", file |-> file]

\* `# Preliminary Analysis for Folder: ${directory}\n\n`
PreliminaryHeader(directory) ==
  <<[t |-> "# Preliminary Analysis for Folder: ", file |-> <<<<directory>>>>], WS>>

\* `Failed to generate report for file: ${codeFile.filePath} due to unexpected system error.`
AnalysisErrorMessage(filePath) ==
  <<[t |-> "Failed to generate report for file: due to unexpected system error.",
     file |-> filePath]>>

\* `# Sorry, couldn't standardize your report.`
StandardizeApology == <<"# Sorry, couldn't standardize your report.">>

\* `# Sorry, couldn't generate your report.`
EmptyReportApology == <<"# Sorry, couldn't generate your report.">>

\* errorMarkdown of the catch block of generateReport
ErrorMarkdown(directory) ==
  <<"# Sorry, couldn't generate your report.",
    "Failed to generate report for folder: due to unexpected system error.", directory>>

(***************************************************************************)
(* stripMarkdown (utils.ts): /```markdown\s*([\s\S]*?)\s*```/g replaced by *)
(* the trimmed content                                                     *)
(***************************************************************************)
IsSpace(x) == x.t \in {"\n\n", " "}

RECURSIVE TrimStart(_)
TrimStart(s) == IF s # <<>> /\ IsSpace(Head(s)) THEN TrimStart(Tail(s)) ELSE s

RECURSIVE TrimEnd(_)
TrimEnd(s) ==
  IF s # <<>> /\ IsSpace(s[Len(s)]) THEN TrimEnd(SubSeq(s, 1, Len(s) - 1)) ELSE s

Trim(s) == TrimEnd(TrimStart(s))

\* the pieces ``` and ```markdown
Fence == Txt("FENCE")

MarkdownFence == Txt("FENCE markdown")

\* a piece the pattern's opening ```markdown matches
Opens(x) == x = MarkdownFence

\* a piece whose first characters the pattern's closing ``` matches
Closes(x) == x \in {Fence, MarkdownFence}

RECURSIVE stripMarkdown(_)
stripMarkdown(s) ==
  LET opens == {i \in 1..Len(s) : Opens(s[i])}
  IN  IF opens = {} THEN s
      ELSE LET i == CHOOSE k \in opens : \A m \in opens : k <= m
               closes == {j \in (i + 1)..Len(s) : Closes(s[j])}
           IN  IF closes = {} THEN s
               ELSE LET j == CHOOSE k \in closes : \A m \in closes : k <= m
                    IN  SubSeq(s, 1, i - 1)
                          \o Trim(SubSeq(s, i + 1, j - 1))
                          \o (IF Opens(s[j]) THEN <<Txt("markdown")>> ELSE <<>>)
                          \o stripMarkdown(SubSeq(s, j + 1, Len(s)))

(***************************************************************************)
(* Loader.start (loader.ts): a message with a line break is refused        *)
(***************************************************************************)
RECURSIVE Pieces(_)
Pieces(path) == IF path = <<>> THEN <<>> ELSE Head(path) \o Pieces(Tail(path))

\* `Analyzing file: ${codeFile.file}`
AnalyzingMessage(file) == <<"Analyzing file: ">> \o Pieces(file)

\* `Compiling final report for directory: ${directory}`
CompilingMessage(directory) == <<"Compiling final report for directory: ", directory>>

\* if (message?.includes("\n")) throw new Error("Message cannot contain newlines.")
StartThrows(message) == \E i \in 1..Len(message) : message[i] = "\n"

(***************************************************************************)
(* generateCodeFileAnalysis and standardizeReport (report-generator.ts)    *)
(***************************************************************************)
\* what the text-generation service may answer to an analysis request: no
\* text, plain text, text in a markdown fence, and text with one half of a fence
AnalysisReplies ==
  {<<>>,
   <<Txt("analysis")>>,
   <<MarkdownFence, WS, Txt("analysis"), WS, Fence>>,
   <<MarkdownFence, Txt("analysis")>>,
   <<Txt("analysis"), Fence>>}

\* outcomes of one analysis call: it resolves with a text or it throws
AnalysisOutcomes ==
  {[ok |-> TRUE, text |-> r] : r \in AnalysisReplies} \cup {[ok |-> FALSE, text |-> <<>>]}

\* variant: the catch block returns no text
generateCodeFileAnalysis_NoPlaceholder(codeFile, outcome) ==
  [file |-> codeFile.filePath, report |-> outcome.text]

generateCodeFileAnalysis(codeFile, outcome) ==
  IF outcome.ok
    THEN [file |-> codeFile.filePath, report |-> outcome.text]
    ELSE [file |-> codeFile.filePath, report |-> AnalysisErrorMessage(codeFile.filePath)]

\* the text the service answers a standardization request with
StandardizedText(report) == <<"# Standardized">> \o report

\* largest elapsed time of one standardizeReport call, in clock ticks
MaxElapsed == 2

\* variant: the catch block leaves standardizedReport as initialised
standardizeReport_NoApology(report, ok, elapsed) ==
  [standardizedReport |-> IF ok THEN StandardizedText(report) ELSE <<>>,
   performanceStats |-> [totalTime |-> elapsed]]

standardizeReport(report, ok, elapsed) ==
  [standardizedReport |-> IF ok THEN StandardizedText(report) ELSE StandardizeApology,
   performanceStats |-> [totalTime |-> elapsed]]

(***************************************************************************)
(* generateReport (report-generator.ts)                                    *)
(***************************************************************************)
FolderPath(directory) == <<<<directory>>>>

\* snapshots generateReport is run on: the root missing, a file or a
\* directory; below it a file named like an ignored directory, a
\* subdirectory with a source file, a log file and a file with a line break
\* in its name
ReportSnapshots ==
  {f \in Snapshots :
     /\ \A p \in AllPaths : f[p] = "dir" => p \in {Root, Root \o << <<"lib">> >>}
     /\ \A p \in AllPaths : f[p] = "file" =>
          p \in {Root, Root \o << <<".git">> >>, Root \o << <<"lib">>, <<"c", ".ts">> >>,
                 Root \o << <<"b", ".log">> >>, Root \o << <<"n", "\n", ".ts">> >>}}

\* documents the analysis stage hands to compile, by length: never blank,
\* as the document starts with its header line
PreliminaryDocs == {d \in Docs : ~d.blank /\ d.len > 1}

\* variant: the next step is taken without waiting for the pending call
Awaited_Never(pending) == TRUE

\* await: the function goes on when the call it made has settled
Awaited(pending) == pending = <<>>

\* variant: a rejected collection is taken for an empty folder
CollectionIsFatal_Never(res) == FALSE

\* line 454: await getAllFilesInFolder(directory) inside the try block
CollectionIsFatal(res) == ~res.ok

\* lines 107-129
getFileContentsFromFiles(files, unreadable) ==
  [i \in 1..Len(files) |->
     [file |-> files[i], content |-> IF files[i] \in unreadable THEN "" ELSE "code"]]

\* lines 605-616
CaughtResult(directory) ==
  [set |-> TRUE, caught |-> TRUE, preliminaryAnalysis |-> ErrorMarkdown(directory),
   report |-> ErrorMarkdown(directory)]

ReportInit ==
  /\ fs \in ReportSnapshots
  /\ collected = [pc |-> "idle", files |-> <<>>, read |-> <<>>]
  /\ \E directory \in Directories :
       gen = [pc |-> "start", directory |-> directory, files |-> <<>>,
              fileContents |-> <<>>, i |-> 1, preliminaryAnalysis |-> <<>>,
              analyses |-> <<>>, fileProcessingTimes |-> <<>>,
              standardization |-> <<>>, pending |-> <<>>]
  /\ llm = <<>>
  /\ output = [set |-> FALSE, caught |-> FALSE]

\* line 454 rejects: the catch block returns the error markdown
CollectFails ==
  /\ gen.pc = "start"
  /\ CollectionIsFatal(getAllFilesInFolder(fs, FolderPath(gen.directory)))
  /\ output' = CaughtResult(gen.directory)
  /\ gen' = [gen EXCEPT !.pc = "done"]
  /\ UNCHANGED <<fs, collected, llm, compileVars, splitVars, auxVars>>

\* lines 454-468: the files are collected and read, the document is started
CollectFiles ==
  /\ gen.pc = "start"
  /\ ~CollectionIsFatal(getAllFilesInFolder(fs, FolderPath(gen.directory)))
  /\ LET files == getAllFilesInFolder(fs, FolderPath(gen.directory)).files
     IN  \E unreadable \in SUBSET {files[i] : i \in 1..Len(files)} :
           gen' = [gen EXCEPT
                     !.pc = "analyzing",
                     !.files = files,
                     !.fileContents = getFileContentsFromFiles(files, unreadable),
                     !.preliminaryAnalysis = PreliminaryHeader(gen.directory)]
  /\ UNCHANGED <<fs, collected, llm, output, compileVars, splitVars, auxVars>>

\* lines 471-477, 166: a turn of the loop starts; Loader.load starts the
\* spinner and runs the callback, which issues the analysis call of the file
IssueAnalysis ==
  /\ gen.pc = "analyzing"
  /\ Awaited(gen.pending)
  /\ gen.i <= Len(gen.fileContents)
  /\ ~StartThrows(AnalyzingMessage(gen.fileContents[gen.i].file))
  /\ gen' = [gen EXCEPT
               !.pending = Append(@, [stage |-> "analysis",
                                      file |-> gen.fileContents[gen.i].file])]
  /\ UNCHANGED <<fs, collected, llm, output, compileVars, splitVars, auxVars>>

\* lines 166-177, 482-499: the analysis call settles; the callback strips
\* and appends the text, the spinner stops and the turn ends
AnalyzeFile ==
  /\ gen.pc = "analyzing"
  /\ gen.pending # <<>>
  /\ \E outcome \in AnalysisOutcomes :
       LET codeFile == [filePath |-> gen.fileContents[gen.i].file,
                        content |-> gen.fileContents[gen.i].content]
           analysis == generateCodeFileAnalysis(codeFile, outcome)
           cleanedReport == stripMarkdown(analysis.report)
       IN  /\ llm' = Append(llm, [stage |-> "analysis", file |-> codeFile.filePath,
                                  ok |-> outcome.ok, text |-> outcome.text])
           /\ gen' = [gen EXCEPT
                        !.pending = Tail(@),
                        !.analyses = Append(@, analysis),
                        !.preliminaryAnalysis =
                           @ \o <<FileHeading(analysis.file), WS>> \o cleanedReport
                             \o <<WS, Txt("---"), WS>>,
                        !.fileProcessingTimes = Append(@, 1),
                        !.i = @ + 1]
  /\ UNCHANGED <<fs, collected, output, compileVars, splitVars, auxVars>>

\* line 474: Loader.start throws on the message of this file; the catch
\* block of generateReport returns the error markdown
LoaderRefusesFile ==
  /\ gen.pc = "analyzing"
  /\ Awaited(gen.pending)
  /\ gen.i <= Len(gen.fileContents)
  /\ StartThrows(AnalyzingMessage(gen.fileContents[gen.i].file))
  /\ output' = CaughtResult(gen.directory)
  /\ gen' = [gen EXCEPT !.pc = "done"]
  /\ UNCHANGED <<fs, collected, llm, compileVars, splitVars, auxVars>>

\* lines 502-529: the document is stripped and compile is called with running
\* report "" and index 0; the document reaches compile as a text of some length
StartCompile ==
  /\ gen.pc = "analyzing"
  /\ Awaited(gen.pending)
  /\ gen.i > Len(gen.fileContents)
  /\ ~StartThrows(CompilingMessage(gen.directory))
  /\ gen' = [gen EXCEPT !.pc = "compiling",
                        !.preliminaryAnalysis = stripMarkdown(@)]
  /\ \E d \in PreliminaryDocs :
       /\ args' = [directory |-> gen.directory, preliminaryAnalysis |-> d,
                   runningReport |-> <<>>, startingIndex |-> 0]
       /\ stack' = <<Frame(gen.directory, d, <<>>, 0)>>
  /\ calls' = <<>>
  /\ result' = <<>>
  /\ cpc' = "running"
  /\ UNCHANGED <<fs, collected, llm, output, splitVars, auxVars>>

\* variant: no compiled report counts as empty
EmptyReport_Never(report) == FALSE

\* line 532: !report || report.trim() === ""
EmptyReport(report) == report = <<>> \/ IsBlank(report)

\* lines 532-542: compile returned nothing to standardize
ReturnApology ==
  /\ gen.pc = "compiling"
  /\ cpc = "returned"
  /\ EmptyReport(result)
  /\ output' = [set |-> TRUE, caught |-> FALSE,
                preliminaryAnalysis |-> gen.preliminaryAnalysis,
                report |-> EmptyReportApology]
  /\ gen' = [gen EXCEPT !.pc = "done"]
  /\ UNCHANGED <<fs, collected, llm, compileVars, splitVars, auxVars>>

\* lines 548-551, 357: standardizeReport is called and issues its call
IssueStandardize ==
  /\ gen.pc = "compiling"
  /\ cpc = "returned"
  /\ ~EmptyReport(result)
  /\ Awaited(gen.pending)
  /\ gen' = [gen EXCEPT
               !.pc = "standardizing",
               !.pending = Append(@, [stage |-> "standardize", file |-> <<>>])]
  /\ UNCHANGED <<fs, collected, llm, output, compileVars, splitVars, auxVars>>

RECURSIVE Sum(_)
Sum(times) == IF times = <<>> THEN 0 ELSE Head(times) + Sum(Tail(times))

\* a quotient kept as the pair it is computed from (0 over 0 is NaN)
Quotient(total, n) == [total |-> total, over |-> n]

\* lines 567-598: the performance record of a call with performanceStats
\* set; the wall-clock spans are left out.  The chunk figures are computed
\* from fileProcessingTimes, the durations of the per-file analyses.
PerformanceMetrics(fileProcessingTimes, standardizationTime) ==
  [chunkProcessingTime |-> Sum(fileProcessingTimes),
   averageChunkProcessingTime |-> Quotient(Sum(fileProcessingTimes),
                                           Len(fileProcessingTimes)),
   averageFileProcessingTime |-> Quotient(Sum(fileProcessingTimes),
                                          Len(fileProcessingTimes)),
   standardizationTime |-> standardizationTime]

\* lines 357-414, 551-604: the call settles, succeeding or throwing;
\* standardizeReport returns and generateReport returns its result
Standardize ==
  /\ gen.pc = "standardizing"
  /\ gen.pending # <<>>
  /\ \E ok \in BOOLEAN, elapsed \in 0..MaxElapsed :
       LET std == standardizeReport(result, ok, elapsed)
       IN  /\ llm' = Append(llm, [stage |-> "standardize", file |-> <<>>,
                                  ok |-> ok, text |-> result])
           /\ output' = [set |-> TRUE, caught |-> FALSE,
                         preliminaryAnalysis |-> gen.preliminaryAnalysis,
                         report |-> std.standardizedReport,
                         performance |-> PerformanceMetrics(gen.fileProcessingTimes,
                                                            std.performanceStats.totalTime)]
           /\ gen' = [gen EXCEPT !.pc = "done", !.pending = Tail(@),
                                 !.standardization = <<std>>]
  /\ UNCHANGED <<fs, collected, compileVars, splitVars, auxVars>>

\* the steps of compile while generateReport awaits it
CompileStep ==
  /\ gen.pc = "compiling"
  /\ (Enter \/ SkipChunk \/ ChunkSucceeds \/ ChunkFails \/ ReturnReport)

ReportNext ==
  \/ CollectFails
  \/ CollectFiles
  \/ IssueAnalysis
  \/ AnalyzeFile
  \/ LoaderRefusesFile
  \/ StartCompile
  \/ CompileStep
  \/ ReturnApology
  \/ IssueStandardize
  \/ Standardize

ReportStart == CompileIdle /\ SplitIdle /\ ReportInit /\ AuxIdle

ReportSpec == ReportStart /\ [][ReportNext]_vars

(***************************************************************************)
(* getFileContentsFromFiles with its asynchronous reads: every readFile is *)
(* a promise that settles at a time of its own                             *)
(***************************************************************************)
\* most paths in one call
MaxReadFiles == 3

\* the paths the call is given: a source file and a file with a line break
\* in its name, each of which may be missing by the time it is read
ReadPaths == {Root \o << <<"lib">>, <<"c", ".ts">> >>, Root \o << <<"n", "\n", ".ts">> >>}

ReadSnapshots ==
  {f \in ReportSnapshots :
     /\ f[Root] = "dir"
     /\ f[Root \o << <<".git">> >>] = "none"
     /\ f[Root \o << <<"b", ".log">> >>] = "none"}

ReadInputs == UNION {[1..n -> ReadPaths] : n \in 0..MaxReadFiles}

\* lines 112-124: the record of the callback for one file
ReadRecord(file, ok) == [file |-> file, content |-> IF ok THEN "code" ELSE ""]

\* variant: the records are returned in the order their reads settled
ReadResults_Completion(slot, completed) ==
  [k \in 1..Len(completed) |-> slot[completed[k]].record]

\* lines 110, 128: Promise.all resolves with the records in the order of files
ReadResults(slot, completed) == [k \in 1..Len(slot) |-> slot[k].record]

ReadInit ==
  /\ fs \in ReadSnapshots
  /\ \E files \in ReadInputs :
       reads = [pc |-> "reading", files |-> files,
                slot |-> [k \in 1..Len(files) |->
                            [st |-> "pending", ok |-> FALSE, record |-> ReadRecord(files[k], FALSE)]],
                completed |-> <<>>, result |-> <<>>]
  /\ walk = [pc |-> "idle"]
  /\ cfg = [pc |-> "idle"]
  /\ cli = [pc |-> "idle"]
  /\ loader = [pc |-> "idle"]
  /\ collected = [pc |-> "idle", files |-> <<>>, read |-> <<>>]
  /\ gen = [pc |-> "idle"]
  /\ llm = <<>>
  /\ output = [set |-> FALSE, caught |-> FALSE]

\* lines 113-117: the read of the k-th file has succeeded
ReadSucceeds(k) ==
  /\ reads.pc = "reading"
  /\ reads.slot[k].st = "pending"
  /\ fs[reads.files[k]] = "file"
  /\ reads' = [reads EXCEPT
                 !.slot[k] = [st |-> "settled", ok |-> TRUE,
                              record |-> ReadRecord(reads.files[k], TRUE)],
                 !.completed = Append(@, k)]

\* lines 118-124: the read of the k-th file has failed (missing, a
\* directory, not permitted) and the catch block answers for it
ReadFails(k) ==
  /\ reads.pc = "reading"
  /\ reads.slot[k].st = "pending"
  /\ reads' = [reads EXCEPT
                 !.slot[k] = [st |-> "settled", ok |-> FALSE,
                              record |-> ReadRecord(reads.files[k], FALSE)],
                 !.completed = Append(@, k)]

\* lines 110, 128: every callback has resolved and the call returns
ReadsAllSettled ==
  /\ reads.pc = "reading"
  /\ \A k \in 1..Len(reads.files) : reads.slot[k].st = "settled"
  /\ reads' = [reads EXCEPT !.pc = "resolved",
                            !.result = ReadResults(reads.slot, reads.completed)]

\* the reads touch nothing but their own operations
ReadFrame ==
  UNCHANGED <<fs, collected, gen, llm, output, walk, cfg, cli, loader, compileVars, splitVars>>

ReadNext ==
  \/ \E k \in 1..Len(reads.files) : ReadSucceeds(k) /\ ReadFrame
  \/ \E k \in 1..Len(reads.files) : ReadFails(k) /\ ReadFrame
  \/ ReadsAllSettled /\ ReadFrame

ReadStart == CompileIdle /\ SplitIdle /\ ReadInit

ReadSpec == ReadStart /\ [][ReadNext]_vars

(***************************************************************************)
(* initConfig (config.ts).  A value of process.env or of the .env file is  *)
(* <<>> when the variable is not there and <<v>> when it is set to v       *)
(***************************************************************************)
REQUIRED_ENV_VARIABLES == <<"OPENAI_API_KEY">>

\* the variables of the model: the required one and one that is not
EnvNames == {"OPENAI_API_KEY", "OTHER"}

EnvValues == {<<>>, <<"">>, <<"from env">>}

DotenvValues == {<<>>, <<"">>, <<"from file">>}

\* what the user may type: nothing, a key, a key with a double quote
Answers == {"", "typed", "ty\"ped"}

\* variant: dotenv.config({ override: true })
DotenvValue_Override(current, fromFile) == IF fromFile # <<>> THEN fromFile ELSE current

\* dotenv.config(): a variable of the file is set unless process.env has it
DotenvValue(current, fromFile) == IF current = <<>> THEN fromFile ELSE current

\* lines 34-40
assertEnvVariable(env, name) == IF env[name] = <<>> THEN "" ELSE env[name][1]

\* lines 51-62: status after the forEach
assertAllEnvVariables(env) ==
  \A k \in 1..Len(REQUIRED_ENV_VARIABLES) :
    assertEnvVariable(env, REQUIRED_ENV_VARIABLES[k]) # ""

\* line 113: if (!value)
NeedsPrompt(value) == value = <<>> \/ value = <<"">>

\* lines 168-172: execSync(`export ${key}="${value}"`) fails on a value that
\* breaks the quoting of the command
ExportThrows(value) == value = "ty\"ped"

ConfigInit ==
  /\ \E env \in [EnvNames -> EnvValues], file \in [EnvNames -> DotenvValues] :
       cfg = [pc |-> "start", env |-> env, file |-> file, k |-> 1,
              prompted |-> <<>>, initial |-> env]
  /\ cli = [pc |-> "idle"]
  /\ loader = [pc |-> "idle"]
  /\ walk = [pc |-> "idle"]
  /\ reads = [pc |-> "idle"]
  /\ fs = [p \in AllPaths |-> "none"]
  /\ collected = [pc |-> "idle", files |-> <<>>, read |-> <<>>]
  /\ gen = [pc |-> "idle"]
  /\ llm = <<>>
  /\ output = [set |-> FALSE, caught |-> FALSE]

\* line 149: dotenv.config()
LoadDotenv ==
  /\ cfg.pc = "start"
  /\ cfg' = [cfg EXCEPT
               !.env = [n \in EnvNames |-> DotenvValue(cfg.env[n], cfg.file[n])],
               !.pc = "assert"]

\* lines 150-154: assertAllEnvVariables, and the prompt when it fails
AssertEnv ==
  /\ cfg.pc = "assert"
  /\ cfg' = [cfg EXCEPT
               !.pc = IF assertAllEnvVariables(cfg.env) THEN "done" ELSE "prompt",
               !.k = 1]

\* lines 111-128, 163-172: one turn of the loop: a variable that has a value
\* is passed over; for another the user is asked and answers, setEnvProperty
\* stores the answer, and a failed export ends the loop in the catch block
PromptTurn ==
  /\ cfg.pc = "prompt"
  /\ cfg.k <= Len(REQUIRED_ENV_VARIABLES)
  /\ IF NeedsPrompt(cfg.env[REQUIRED_ENV_VARIABLES[cfg.k]])
       THEN \E answer \in Answers :
              cfg' = [cfg EXCEPT
                        !.env[REQUIRED_ENV_VARIABLES[cfg.k]] = <<answer>>,
                        !.prompted = Append(@, REQUIRED_ENV_VARIABLES[cfg.k]),
                        !.k = @ + 1,
                        !.pc = IF ExportThrows(answer) THEN "done" ELSE @]
       ELSE cfg' = [cfg EXCEPT !.k = @ + 1]

\* line 130: every required variable was visited; rl.close()
PromptsDone ==
  /\ cfg.pc = "prompt"
  /\ cfg.k > Len(REQUIRED_ENV_VARIABLES)
  /\ cfg' = [cfg EXCEPT !.pc = "done"]

ConfigStep == LoadDotenv \/ AssertEnv \/ PromptTurn \/ PromptsDone

\* initConfig touches nothing but the environment and the prompts
ConfigFrame ==
  UNCHANGED <<fs, collected, gen, llm, output, walk, reads, cli, loader, compileVars, splitVars>>

ConfigNext ==
  \/ LoadDotenv /\ ConfigFrame
  \/ AssertEnv /\ ConfigFrame
  \/ PromptTurn /\ ConfigFrame
  \/ PromptsDone /\ ConfigFrame

ConfigStart == CompileIdle /\ SplitIdle /\ ConfigInit

ConfigSpec == ConfigStart /\ [][ConfigNext]_vars

(***************************************************************************)
(* Loader (loader.ts): the spinner object and the static Loader.load       *)
(***************************************************************************)
\* spinnerFrames.length
SpinnerFrames == 10

\* the messages start is called with: none, one line, two lines
LoaderMessages == {<<>>, <<"Working">>, <<"two", "\n", "lines">>}

\* the constructor's defaultMessage
DefaultMessage == <<"Loading">>

\* new Loader(), used by its owner directly (pc "free") or by Loader.load
NewLoader(pc) ==
  [pc |-> pc, interval |-> FALSE, frameIndex |-> 0, currentLine |-> <<>>,
   message |-> <<>>, timers |-> 0, last |-> "none"]

LoaderInit ==
  /\ loader \in {NewLoader("free"), NewLoader("load")}
  /\ walk = [pc |-> "idle"]
  /\ reads = [pc |-> "idle"]
  /\ cfg = [pc |-> "idle"]
  /\ cli = [pc |-> "idle"]
  /\ fs = [p \in AllPaths |-> "none"]
  /\ collected = [pc |-> "idle", files |-> <<>>, read |-> <<>>]
  /\ gen = [pc |-> "idle"]
  /\ llm = <<>>
  /\ output = [set |-> FALSE, caught |-> FALSE]

\* lines 64-90: start refuses a message with a line break and a running
\* loader by throwing; otherwise it sets the interval timer
start(l, message) ==
  IF StartThrows(message) \/ l.interval
    THEN [l EXCEPT !.last = "threw"]
    ELSE [l EXCEPT !.interval = TRUE, !.timers = @ + 1, !.last = "started",
                   !.message = IF message = <<>> THEN DefaultMessage ELSE message]

\* lines 146-147: a callback that throws rejects load before loader.stop()
CallbackSkipsStop(threw) == threw

\* lines 97-113: stop on a loader that is not running logs and returns;
\* otherwise the timer is cleared and the fields are reset
stop(l) ==
  IF ~l.interval
    THEN [l EXCEPT !.last = "not running"]
    ELSE [l EXCEPT !.interval = FALSE, !.timers = @ - 1, !.frameIndex = 0,
                   !.currentLine = <<>>, !.last = "stopped"]

\* lines 120-124
clear(l) == [l EXCEPT !.currentLine = <<>>]

\* lines 83-89: the interval timer fires
Tick ==
  /\ loader.pc # "idle"
  /\ loader.timers > 0
  /\ loader' = [loader EXCEPT !.currentLine = loader.message,
                              !.frameIndex = (@ + 1) % SpinnerFrames]

\* the owner of the loader calls start
CallStart ==
  /\ loader.pc = "free"
  /\ \E message \in LoaderMessages : loader' = start(loader, message)

\* the owner of the loader calls stop
CallStop ==
  /\ loader.pc = "free"
  /\ loader' = stop(loader)

\* the owner of the loader calls clear
CallClear ==
  /\ loader.pc = "free"
  /\ loader' = clear(loader)

\* lines 142-143: load creates its loader and starts it; a throw of start
\* rejects load
LoadStarts ==
  /\ loader.pc = "load"
  /\ \E message \in LoaderMessages :
       LET l == start(loader, message)
       IN  loader' = [l EXCEPT !.pc = IF l.last = "threw" THEN "rejected" ELSE "waiting"]

\* lines 144-145: the induced time has passed, the line is cleared
LoadClears ==
  /\ loader.pc = "waiting"
  /\ loader' = [clear(loader) EXCEPT !.pc = "callback"]

\* lines 146-147: the callback returns and the loader is stopped, or the
\* callback throws and load is rejected
LoadCallback ==
  /\ loader.pc = "callback"
  /\ \E threw \in BOOLEAN :
       loader' = IF CallbackSkipsStop(threw)
                   THEN [loader EXCEPT !.pc = "rejected", !.last = "callback threw"]
                   ELSE [stop(loader) EXCEPT !.pc = "resolved"]

\* the loader touches nothing but its own fields
LoaderFrame ==
  UNCHANGED <<fs, collected, gen, llm, output, walk, reads, cfg, cli, compileVars, splitVars>>

LoaderNext ==
  \/ Tick /\ LoaderFrame
  \/ CallStart /\ LoaderFrame
  \/ CallStop /\ LoaderFrame
  \/ CallClear /\ LoaderFrame
  \/ LoadStarts /\ LoaderFrame
  \/ LoadClears /\ LoaderFrame
  \/ LoadCallback /\ LoaderFrame

LoaderStart == CompileIdle /\ SplitIdle /\ LoaderInit

LoaderSpec == LoaderStart /\ [][LoaderNext]_vars

(***************************************************************************)
(* run (index.ts): the command-line program                                *)
(***************************************************************************)
\* the argument vectors: with and without --directory, in analysis mode
\* (with and without --writePreliminaryAnalysis and --outputFile) and in
\* --standardize mode (with and without --standardizationFile)
RunArgs ==
  {a \in [directory : {<<>>, <<"repo">>}, standardize : BOOLEAN,
          standardizationFile : {"", "report.md"}, outputFile : {"", "out.md"},
          writePreliminaryAnalysis : BOOLEAN] :
     /\ ~a.standardize => a.standardizationFile = ""
     /\ a.standardize => ~a.writePreliminaryAnalysis
     /\ a.writePreliminaryAnalysis => a.outputFile = "out.md"}

\* the directory is missing, a file, empty, or holds one source file
RunSnapshots ==
  {f \in ReportSnapshots :
     \A p \in AllPaths : f[p] # "none" => p \in {Root, Root \o << <<".git">> >>}}

\* process.env and the .env file at the start: the key is set or not
RunEnvs == {e \in [EnvNames -> EnvValues] : e["OTHER"] = <<>> /\ e["OPENAI_API_KEY"] # <<"">>}

\* lines 141-148, 218: the name of the output file
OutputFile(argv) ==
  IF argv.outputFile # "" THEN argv.outputFile
  ELSE IF argv.standardize THEN "standardized_report_fun.md" ELSE "report_fun.md"

\* variant: validateArgs lets a missing directory pass
ValidateExits_Never(argv) == FALSE

\* validateArgs (utils.ts): if (args && !args.directory) ... process.exit(1)
ValidateExits(argv) == argv.directory = <<>>

\* the state generateReport starts in
GenerateReportCall(directory) ==
  [pc |-> "start", directory |-> directory, files |-> <<>>,
   fileContents |-> <<>>, i |-> 1, preliminaryAnalysis |-> <<>>,
   analyses |-> <<>>, fileProcessingTimes |-> <<>>,
   standardization |-> <<>>, pending |-> <<>>]

RunInit ==
  /\ fs \in RunSnapshots
  /\ \E a \in RunArgs : cli = [pc |-> "access", args |-> a, written |-> <<>>, exit |-> <<>>]
  /\ loader = [pc |-> "idle"]
  /\ \E env \in RunEnvs :
       cfg = [pc |-> "idle", env |-> env, file |-> [n \in EnvNames |-> <<>>], k |-> 1,
              prompted |-> <<>>, initial |-> env]
  /\ walk = [pc |-> "idle"]
  /\ reads = [pc |-> "idle"]
  /\ collected = [pc |-> "idle", files |-> <<>>, read |-> <<>>]
  /\ gen = [pc |-> "idle"]
  /\ llm = <<>>
  /\ output = [set |-> FALSE, caught |-> FALSE]

\* lines 118-129: fs.access on the directory, when one was given
AccessDirectory ==
  /\ cli.pc = "access"
  /\ IF cli.args.directory # <<>> /\ fs[FolderPath(cli.args.directory[1])] = "none"
       THEN cli' = [cli EXCEPT !.pc = "exited", !.exit = <<1>>]
       ELSE cli' = [cli EXCEPT !.pc = IF cli.args.standardize THEN "standardize"
                                                               ELSE "config"]
  /\ UNCHANGED <<fs, collected, gen, llm, output, walk, reads, cfg, loader, compileVars, splitVars>>

\* lines 131-165: --standardize without a file, or with a file that cannot be read
StandardizeExits ==
  /\ cli.pc = "standardize"
  /\ cli' = [cli EXCEPT !.pc = "exited", !.exit = <<1>>]
  /\ UNCHANGED <<fs, collected, gen, llm, output, walk, reads, cfg, loader, compileVars, splitVars>>

\* lines 158-188: the file is read, standardizeReport makes its call, the
\* result is written (or the write fails and is logged), run returns
StandardizeFile ==
  /\ cli.pc = "standardize"
  /\ cli.args.standardizationFile # ""
  /\ \E ok \in BOOLEAN, elapsed \in 0..MaxElapsed, wrote \in BOOLEAN :
       LET reportContent == <<"content of", cli.args.standardizationFile>>
           std == standardizeReport(reportContent, ok, elapsed)
       IN  /\ llm' = Append(llm, [stage |-> "standardize", file |-> <<>>,
                                  ok |-> ok, text |-> reportContent])
           /\ cli' = [cli EXCEPT
                        !.pc = "returned",
                        !.exit = <<0>>,
                        !.written = IF wrote
                                      THEN Append(@, [file |-> OutputFile(cli.args),
                                                      content |-> std.standardizedReport])
                                      ELSE @]
  /\ UNCHANGED <<fs, collected, gen, output, walk, reads, cfg, loader, compileVars, splitVars>>

\* line 226: initConfig is called
CallInitConfig ==
  /\ cli.pc = "config"
  /\ cfg.pc = "idle"
  /\ cfg' = [cfg EXCEPT !.pc = "start"]
  /\ UNCHANGED <<fs, collected, gen, llm, output, walk, reads, cli, loader, compileVars, splitVars>>

\* the steps of initConfig while run awaits it
InitConfigStep ==
  /\ cli.pc = "config"
  /\ ConfigStep
  /\ ConfigFrame

\* line 238: validateArgs ends the process when no directory was given
ValidateFails ==
  /\ cli.pc = "config"
  /\ cfg.pc = "done"
  /\ ValidateExits(cli.args)
  /\ cli' = [cli EXCEPT !.pc = "exited", !.exit = <<1>>]
  /\ UNCHANGED <<fs, collected, gen, llm, output, walk, reads, cfg, loader, compileVars, splitVars>>

\* lines 238-244: validateArgs passes and generateReport is called
CallGenerateReport ==
  /\ cli.pc = "config"
  /\ cfg.pc = "done"
  /\ ~ValidateExits(cli.args)
  /\ cli' = [cli EXCEPT !.pc = "generating"]
  /\ gen' = GenerateReportCall(IF cli.args.directory = <<>> THEN "undefined"
                                                           ELSE cli.args.directory[1])
  /\ UNCHANGED <<fs, collected, llm, output, walk, reads, cfg, loader, compileVars, splitVars>>

\* the steps of generateReport while run awaits it
GenerateStep ==
  /\ cli.pc = "generating"
  /\ ReportNext

\* a report as the sequence of pieces stripMarkdown works on
ReportText(report) == [i \in 1..Len(report) |-> Txt(report[i])]

\* lines 251-283: the preliminary analysis, when asked for, and the report
\* are written; a failed write is logged and ends the writing
WriteReport ==
  /\ cli.pc = "generating"
  /\ gen.pc = "done"
  /\ \E wrote \in 0..2 :
       LET preliminary == IF cli.args.writePreliminaryAnalysis
                            THEN <<[file |-> "preliminary_analysis_" \o OutputFile(cli.args),
                                    content |-> output.preliminaryAnalysis]>>
                            ELSE <<>>
           files == preliminary \o <<[file |-> OutputFile(cli.args),
                                     content |-> stripMarkdown(ReportText(output.report))]>>
       IN  /\ wrote <= Len(files)
           /\ cli' = [cli EXCEPT !.pc = "returned", !.exit = <<0>>,
                                 !.written = SubSeq(files, 1, wrote)]
  /\ UNCHANGED <<fs, collected, gen, llm, output, walk, reads, cfg, loader, compileVars, splitVars>>

RunNext ==
  \/ AccessDirectory
  \/ StandardizeExits
  \/ StandardizeFile
  \/ CallInitConfig
  \/ InitConfigStep
  \/ ValidateFails
  \/ CallGenerateReport
  \/ GenerateStep
  \/ WriteReport

RunStart == CompileIdle /\ SplitIdle /\ RunInit

RunSpec == RunStart /\ [][RunNext]_vars

(***************************************************************************)
(* Properties of the compiler, checked under Spec / FairSpec               *)
(***************************************************************************)
Doc == args.preliminaryAnalysis

N == NChunks(Doc)

Returned == cpc = "returned"

OkBefore(i) == Cardinality({j \in 1..(i - 1) : calls[j].ok})

OkCalls == OkBefore(Len(calls) + 1)

CallChunks == [i \in 1..Len(calls) |-> calls[i].chunk]

\* C1: when the call for chunk k fails, compile re-invokes itself with the
\* same directory and preliminary document and the running report as it stood,
\* resuming from chunk k, so that the next external call is again for chunk k.
C1_FailedChunkRetried ==
  /\ \A j \in 2..Len(stack) :
       /\ stack[j].directory = stack[j - 1].directory
       /\ stack[j].preliminaryAnalysis = stack[j - 1].preliminaryAnalysis
       /\ stack[j].startingIndex = stack[j - 1].lastIndex
       /\ stack[j].pc = "entry" => stack[j].runningReport = stack[j - 1].runningReport
  /\ \A i \in 1..(Len(calls) - 1) :
       ~calls[i].ok => calls[i + 1].chunk = calls[i].chunk

\* C2: at every recursive re-invocation and at the return, the resume index
\* equals the number of chunks whose call succeeded and was folded into the
\* running report; a returned report has all N chunks folded into it.
C2_IndexCountsFoldedChunks ==
  /\ (cpc = "running" /\ Len(stack) > 1 /\ Top.pc = "entry")
       => Top.startingIndex = args.startingIndex + OkCalls
  /\ Returned => args.startingIndex + OkCalls = N

\* C3: resumed from (R, k), R the running report of an uninterrupted run after
\* k chunks, compile calls the service for chunks k..N-1 once each in order and
\* returns the report of the uninterrupted run, also when a call failed on the way.
C3_ResumeEqualsUninterrupted ==
  (Returned /\ args.runningReport = UninterruptedReport(args.directory, args.startingIndex))
    => /\ (\A i \in 1..Len(calls) : calls[i].ok)
            => CallChunks = [i \in 1..(N - args.startingIndex) |-> args.startingIndex + i - 1]
       /\ result = UninterruptedReport(args.directory, N)

\* C4: whatever calls fail, the number of external calls never exceeds the
\* number of chunks, the recursion is never deeper than the number of chunks,
\* and compile returns.
C4_BoundedResume ==
  /\ [](Len(calls) <= N /\ Len(stack) <= N + 1)
  /\ <>Returned

\* C4 witness: a document of several chunks, every call failed, compile returned
C4_Witness ==
  /\ Returned
  /\ N >= 2
  /\ Len(calls) = N
  /\ \A i \in 1..Len(calls) : ~calls[i].ok

\* C5: called with an empty running report and index 0, compile seeds the
\* running report with the header naming the directory: the first prompt
\* carries it, and a document of zero chunks returns it verbatim.
C5_HeaderSeeded ==
  (args.runningReport = <<>> /\ args.startingIndex = 0)
    => /\ Len(calls) >= 1 => calls[1].runningReport = ReportHeader(args.directory)
       /\ (Returned /\ N = 0) => result = ReportHeader(args.directory)

\* C6 (as stated): a non-blank document not longer than the compilation chunk
\* size makes compile, started at index 0, issue exactly one external call.
C6_NotLongerOneCall ==
  (Returned /\ args.startingIndex = 0 /\ ~Doc.blank
     /\ Doc.len <= DEFAULT_PRELIMINARY_ANALYSIS_CHUNK_SIZE)
    => Len(calls) = 1

\* C6 (amended): a non-blank document shorter than the compilation chunk size
\* is exactly one chunk, and a document of exactly one chunk makes compile,
\* started at index 0 and counting its recursive resumes, issue exactly one
\* external call.
C6_SingleChunkOneCall ==
  (Returned /\ args.startingIndex = 0)
    => /\ (~Doc.blank /\ Doc.len < DEFAULT_PRELIMINARY_ANALYSIS_CHUNK_SIZE) => N = 1
       /\ N = 1 => Len(calls) = 1

\* C6 witness: a one-chunk document whose only call failed, compile returned
C6_Witness ==
  /\ Returned
  /\ args.startingIndex = 0
  /\ ~Doc.blank
  /\ Doc.len = DEFAULT_PRELIMINARY_ANALYSIS_CHUNK_SIZE - 1
  /\ Len(calls) = 1
  /\ ~calls[1].ok

\* C7: chunks are folded in increasing index order, every prompt carries the
\* running report of the latest successful call (or the initial one), and the
\* processed-chunk index moves only when a call succeeds: a failed call leaves
\* the running report and the index where they were.
C7_IndexMovesOnlyOnSuccess ==
  \A i \in 1..Len(calls) :
    /\ calls[i].chunk = args.startingIndex + OkBefore(i)
    /\ i > 1 => calls[i].chunk >= calls[i - 1].chunk
    /\ i > 1 => calls[i].runningReport =
                  IF calls[i - 1].ok
                    THEN generateText(calls[i - 1].chunk, calls[i - 1].runningReport)
                    ELSE calls[i - 1].runningReport

(***************************************************************************)
(* Properties of the chunker, checked under SplitSpec                      *)
(***************************************************************************)
L == Len(text)

\* an explicit overlap with 0 <= overlap < chunkSize was passed
OverlapInRange == overlapArg # <<>> /\ overlapArg[1] < chunkSizeChars

O == overlapArg[1]

CeilDiv(a, b) == (a + b - 1) \div b

\* the window text[from, to) of the claim, 0-based and end-exclusive
Window(t, from, to) == [j \in 1..(to - from) |-> t[from + j]]

\* the windows k = 0, 1, 2, ... with k * (c - o) < Len(t)
Windows(t, c, o) ==
  LET n == Cardinality({k \in 0..Len(t) : k * (c - o) < Len(t)})
  IN  [k \in 1..n |-> Window(t, (k - 1) * (c - o), Min((k - 1) * (c - o) + c, Len(t)))]

\* C8: for non-blank text longer than the chunk size and 0 <= overlap <
\* chunkSize, the chunks are exactly the windows text[k*(C-O), min(k*(C-O)+C, L))
\* for k = 0, 1, ... while k*(C-O) < L, in document order.
C8_WindowsExact ==
  (spc = "returned" /\ ~IsBlank(text) /\ OverlapInRange /\ L > chunkSizeChars)
    => chunks = Windows(text, chunkSizeChars, O)

\* C8 witness: the unit test ("abcdefghij", 3, 1) gives abc, cde, efg, ghi, ij
C8_Witness ==
  /\ spc = "returned"
  /\ text = ExampleText
  /\ chunkSizeChars = 3
  /\ overlapArg = <<1>>
  /\ chunks = << <<"a", "b", "c">>, <<"c", "d", "e">>, <<"e", "f", "g">>,
                 <<"g", "h", "i">>, <<"i", "j">> >>

\* C9 (as stated): the number of chunks is ceil((L - O) / (C - O)) when the
\* text is longer than the chunk size, and 1 otherwise.
C9_CountFormula ==
  (spc = "returned" /\ ~IsBlank(text) /\ OverlapInRange)
    => Len(chunks) = IF L > chunkSizeChars
                       THEN CeilDiv(L - O, chunkSizeChars - O)
                       ELSE 1

\* C9 (amended): the number of chunks is ceil(L / (C - O)) when the text is
\* at least as long as the chunk size, and 1 when it is shorter.
C9_CountByStride ==
  (spc = "returned" /\ ~IsBlank(text) /\ OverlapInRange)
    => Len(chunks) = IF L >= chunkSizeChars
                       THEN CeilDiv(L, chunkSizeChars - O)
                       ELSE 1

\* C9 witness: a text exactly as long as the chunk size, split with overlap,
\* comes back as two chunks
C9_Witness ==
  /\ spc = "returned"
  /\ ~IsBlank(text)
  /\ OverlapInRange
  /\ O >= 1
  /\ L = chunkSizeChars
  /\ Len(chunks) = 2

\* keep the first chunk whole, drop the first o characters of every later one
RECURSIVE Reassemble(_, _)
Reassemble(cs, o) ==
  IF Len(cs) = 0 THEN <<>>
  ELSE IF Len(cs) = 1 THEN cs[1]
  ELSE Reassemble(SubSeq(cs, 1, Len(cs) - 1), o)
         \o SubSeq(cs[Len(cs)], o + 1, Len(cs[Len(cs)]))

\* C10 (as stated): for all text and 0 <= overlap < chunkSize, the
\* de-overlapped chunks concatenate to the text.
C10_ReconstructsAllText ==
  (spc = "returned" /\ OverlapInRange) => Reassemble(chunks, O) = text

\* C10 (amended): for all text that is empty or not whitespace-only and
\* 0 <= overlap < chunkSize, the de-overlapped chunks concatenate to the text.
C10_ReconstructsText ==
  (spc = "returned" /\ OverlapInRange /\ (L = 0 \/ ~IsBlank(text)))
    => Reassemble(chunks, O) = text

\* C10 witness: several overlapping chunks, the last one shorter than the rest
C10_Witness ==
  /\ spc = "returned"
  /\ OverlapInRange
  /\ O >= 1
  /\ ~IsBlank(text)
  /\ Len(chunks) >= 3
  /\ Len(chunks[Len(chunks)]) < chunkSizeChars
  /\ Reassemble(chunks, O) = text

\* every character of t is whitespace (t may be empty)
WhitespaceOnly(t) == \A i \in DOMAIN t : t[i] = " "

\* what the claims expect of a split with overlap o that returns
ExpectedChunks(t, c, o) ==
  IF WhitespaceOnly(t) THEN <<>>
  ELSE IF c > Len(t) THEN <<t>>
  ELSE Windows(t, c, o)

EffectiveAdvance ==
  chunkSizeChars - ClampOverlap(chunkSizeChars, OverlapParam(overlapArg))

\* C12: for every chunkSize >= 1 and every overlap, supplied or defaulted,
\* the window start moves on by at least one character, so the split returns.
C12_AlwaysAdvances ==
  spc \in {"returned", "diverged"}
    => /\ spc = "returned"
       /\ (~WhitespaceOnly(text) /\ chunkSizeChars <= L) => EffectiveAdvance >= 1

\* C13: a supplied overlap >= chunkSize gives the chunks of overlap
\* ceil(0.1 * chunkSize); a supplied overlap < chunkSize is used as it is.
C13_ClampedToTenth ==
  (spc = "returned" /\ overlapArg # <<>>)
    => chunks = ExpectedChunks(text, chunkSizeChars,
                               IF O >= chunkSizeChars
                                 THEN CeilDiv(chunkSizeChars, 10)
                                 ELSE O)

\* C13 witness: overlap equal to the chunk size, several chunks one character apart less
C13_Witness ==
  /\ spc = "returned"
  /\ overlapArg = <<chunkSizeChars>>
  /\ chunkSizeChars = 3
  /\ L = 5
  /\ ~WhitespaceOnly(text)
  /\ Len(chunks) = 3

C15_BlankGivesNoChunks ==
  WhitespaceOnly(text)
    => /\ spc # "diverged"
       /\ spc = "returned" => chunks = <<>>

\* C15 witness: whitespace-only text with a chunk size and overlap that would stall the loop
C15_Witness ==
  /\ spc = "returned"
  /\ text = <<" ", " ">>
  /\ chunkSizeChars = 1
  /\ overlapArg = <<1>>
  /\ chunks = <<>>

(***************************************************************************)
(* Properties of the file collector, checked under CollectSpec             *)
(***************************************************************************)
\* the directories strictly between the root and the last name of p
DirsAbove(p) == {p[i] : i \in 2..(Len(p) - 1)}

\* a file of the snapshot that no ignore rule excludes
Eligible(p) ==
  /\ fs[p] = "file"
  /\ DirsAbove(p) \cap IGNORE_DIRECTORIES = {}
  /\ ~\E ext \in IGNORE_EXTENSIONS :
        \E k \in 1..Len(p[Len(p)]) : SubSeq(p[Len(p)], k, Len(p[Len(p)])) = ext

\* C20: the collector returns exactly the files reachable through
\* subdirectories whose names are not ignored and whose own name has no
\* ignored suffix, each once; a subdirectory with an ignored name is never read.
C20_ExactlyEligibleFiles ==
  collected.pc = "resolved"
    => /\ {collected.files[i] : i \in 1..Len(collected.files)}
            = {p \in AllPaths : Eligible(p)}
       /\ \A i, j \in 1..Len(collected.files) :
            collected.files[i] = collected.files[j] => i = j
       /\ \A i \in 1..Len(collected.read) :
            /\ Len(collected.read[i]) > 1
                 => collected.read[i][Len(collected.read[i])] \notin IGNORE_DIRECTORIES
            /\ DirsAbove(collected.read[i]) \cap IGNORE_DIRECTORIES = {}

\* C20 witness: files at two depths are returned, while an ignored directory
\* holding a file, an ignored file and a file inside node_modules are left out
C20_Witness ==
  /\ collected.pc = "resolved"
  /\ fs[Root \o << <<".git">>, <<"config">> >>] = "file"
  /\ fs[Root \o << <<"lib">>, <<"node_modules">>, <<"e", ".ts">> >>] = "file"
  /\ fs[Root \o << <<"lib">>, <<"d", ".lock">> >>] = "file"
  /\ collected.files = << Root \o << <<"lib">>, <<"c", ".ts">> >>,
                          Root \o << <<"b", ".log">>, <<"g", ".ts">> >> >>

(***************************************************************************)
(* Properties of generateReport and its stages, checked under ReportSpec   *)
(***************************************************************************)
IsAnalysisCall(c) == c.stage = "analysis"

IsStandardizeCall(c) == c.stage = "standardize"

\* the analysis calls made so far, and the standardization calls
AnalysisCalls == SelectSeq(llm, IsAnalysisCall)

StandardizeCalls == SelectSeq(llm, IsStandardizeCall)

\* C16 as stated: every analysis call, successful or not, yields a record
\* with the input path and a non-empty text, the failure placeholder when the
\* call threw, and the loop goes on.
C16_TextNeverEmpty ==
  /\ Len(gen.analyses) = Len(AnalysisCalls)
  /\ \A k \in 1..Len(gen.analyses) :
       /\ gen.analyses[k].file = gen.fileContents[k].file
       /\ gen.analyses[k].report # <<>>
       /\ ~AnalysisCalls[k].ok =>
            gen.analyses[k].report = AnalysisErrorMessage(gen.fileContents[k].file)

\* C16 amended: every analysis call, successful or not, yields a record with
\* the input path; its text is the service's answer when the call succeeded
\* and the non-empty failure placeholder naming the path when it threw; the
\* error does not propagate: the loop goes on to the next file.
C16_ReplyOrPlaceholder ==
  /\ Len(gen.analyses) = Len(AnalysisCalls)
  /\ gen.pc = "analyzing" => gen.i = Len(gen.analyses) + 1
  /\ \A k \in 1..Len(gen.analyses) :
       /\ gen.analyses[k].file = gen.fileContents[k].file
       /\ AnalysisCalls[k].ok => gen.analyses[k].report = AnalysisCalls[k].text
       /\ ~AnalysisCalls[k].ok =>
            /\ gen.analyses[k].report # <<>>
            /\ gen.analyses[k].report = AnalysisErrorMessage(gen.fileContents[k].file)

\* C16 witness: the first call threw, its record holds the placeholder, and
\* the second file was analysed after it
C16_Witness ==
  /\ Len(gen.analyses) = 2
  /\ ~AnalysisCalls[1].ok
  /\ gen.analyses[1].report = AnalysisErrorMessage(gen.files[1])
  /\ AnalysisCalls[2].ok
  /\ gen.analyses[2].report # <<>>

IsFileHeading(x) == x.t = "## File: "

\* the paths of the `## File:` entries of the preliminary document, in order
FileEntries(doc) ==
  LET hs == SelectSeq(doc, IsFileHeading) IN [k \in 1..Len(hs) |-> hs[k].file]

\* the preliminary document of the run: none when the catch block took over
PreliminaryDocument ==
  IF output.set
    THEN IF output.caught THEN <<>> ELSE output.preliminaryAnalysis
    ELSE gen.preliminaryAnalysis

\* C17: once the analysis stage of a run is over, exactly one analysis call
\* was made per collected file, in collection order, and the preliminary
\* document holds exactly one `## File:` entry per collected file in that order.
C17_OneCallAndEntryPerFile ==
  gen.pc \in {"compiling", "standardizing", "done"} /\ fs[Root] = "dir"
    => /\ [k \in 1..Len(AnalysisCalls) |-> AnalysisCalls[k].file] = gen.files
       /\ FileEntries(PreliminaryDocument) = gen.files

\* C18: standardizeReport makes exactly one call and always returns: the
\* service's text when the call succeeded, the fixed apology when it threw,
\* with the elapsed time; generateReport returns that text.
C18_StandardizeNeverThrows ==
  /\ Len(StandardizeCalls) <= 1
  /\ Len(StandardizeCalls) = Len(gen.standardization)
  /\ Len(StandardizeCalls) = 1
       => /\ StandardizeCalls[1].text = result
          /\ gen.standardization[1].performanceStats.totalTime >= 0
          /\ StandardizeCalls[1].ok
               => gen.standardization[1].standardizedReport = StandardizedText(result)
          /\ ~StandardizeCalls[1].ok
               => gen.standardization[1].standardizedReport = StandardizeApology
          /\ gen.pc = "done"
          /\ ~output.caught
          /\ output.report = gen.standardization[1].standardizedReport

\* C18 witness: the standardization call threw and the run returned the apology
C18_Witness ==
  /\ Len(StandardizeCalls) = 1
  /\ ~StandardizeCalls[1].ok
  /\ output.set
  /\ output.report = StandardizeApology
  /\ gen.standardization[1].performanceStats.totalTime > 0

\* C19: when the root is missing or not a directory getAllFilesInFolder
\* rejects and the run ends in the catch block without any analysis,
\* compilation or standardization call.
C19_MissingRootIsFatal ==
  fs[Root] # "dir" /\ gen.pc # "idle"
    => /\ ~getAllFilesInFolder(fs, Root).ok
       /\ llm = <<>>
       /\ calls = <<>>
       /\ cpc = "idle"
       /\ gen.pc \in {"start", "done"}
       /\ gen.pc = "done"
            => output.set /\ output.caught /\ output.report = ErrorMarkdown(gen.directory)

\* C19 witness: a run on a root that is a file has ended with the error markdown
C19_Witness ==
  /\ fs[Root] = "file"
  /\ gen.pc = "done"
  /\ output.caught
  /\ llm = <<>>
  /\ calls = <<>>

(***************************************************************************)
(* Properties of the concurrent file collector, checked under WalkSpec     *)
(***************************************************************************)
Position(seq, x) == CHOOSE k \in 1..Len(seq) : seq[k] = x

\* a and b part ways at some directory, where a's side is listed first
ListedBefore(a, b) ==
  \E k \in 2..Min(Len(a), Len(b)) :
    /\ SubSeq(a, 1, k - 1) = SubSeq(b, 1, k - 1)
    /\ a[k] # b[k]
    /\ Position(Entries(SubSeq(a, 1, k - 1)), a[k])
         < Position(Entries(SubSeq(a, 1, k - 1)), b[k])

\* C21: whatever order the stat and readdir operations settle in, the list
\* the collector resolves with is the one fixed by the snapshot: the files in
\* directory listing order, a subdirectory's files at the subdirectory's place.
C21_OrderIndependentOfCompletion ==
  walk.pc = "resolved"
    => /\ walk.task[Root].files = Walk(fs, Root).files
       /\ \A i, j \in 1..Len(walk.task[Root].files) :
            i < j => ListedBefore(walk.task[Root].files[i], walk.task[Root].files[j])

\* C21 witness: two files were returned in listing order although the later
\* one, in a subdirectory listed first, settled before the earlier one
C21_Witness ==
  /\ walk.pc = "resolved"
  /\ \E i, j \in 1..Len(walk.task[Root].files) :
       /\ i < j
       /\ Len(walk.task[Root].files[i]) > Len(walk.task[Root].files[j])
       /\ Position(walk.completed, walk.task[Root].files[j])
            < Position(walk.completed, walk.task[Root].files[i])

(***************************************************************************)
(* Properties of the concurrent file reader, checked under ReadSpec        *)
(***************************************************************************)
\* C22: whatever order the reads settle in, the call resolves with one
\* record per input path, in input order, each naming its input path; a
\* file that could not be read has empty content, a file that was read has
\* its content, and the call does not fail.
C22_OneRecordPerPathInOrder ==
  /\ reads.pc \in {"reading", "resolved"}
  /\ reads.pc = "resolved"
       => /\ Len(reads.result) = Len(reads.files)
          /\ \A k \in 1..Len(reads.files) :
               /\ reads.result[k].file = reads.files[k]
               /\ reads.slot[k].ok => reads.result[k].content = "code"
               /\ ~reads.slot[k].ok => reads.result[k].content = ""

\* C22 witness: the last of three reads settled first and failed, the
\* first settled last, and the records came back in input order
C22_Witness ==
  /\ reads.pc = "resolved"
  /\ Len(reads.files) = 3
  /\ reads.files[1] # reads.files[3]
  /\ reads.completed = <<3, 2, 1>>
  /\ ~reads.slot[3].ok
  /\ reads.slot[1].ok
  /\ reads.result[3] = [file |-> reads.files[3], content |-> ""]

(***************************************************************************)
(* Properties of the preliminary document, checked under ReportSpec        *)
(***************************************************************************)
\* marker, text and separator rule of one analysis, as a function of it
EntryOf(analysis) ==
  <<FileHeading(analysis.file), WS>> \o stripMarkdown(analysis.report)
    \o <<WS, Txt("---"), WS>>

RECURSIVE EntriesOf(_)
EntriesOf(analyses) ==
  IF analyses = <<>> THEN <<>>
  ELSE EntryOf(Head(analyses)) \o EntriesOf(Tail(analyses))

\* the document before the closing stripMarkdown, as a function of its input
Aggregate(rootLabel, analyses) == PreliminaryHeader(rootLabel) \o EntriesOf(analyses)

HasFence(analysis) ==
  \E k \in 1..Len(analysis.report) : analysis.report[k] \in {Fence, MarkdownFence}

InFlight == Len(gen.pending)

\* the analysis or standardization call in flight, if any
PendingStage(stage) == \E k \in 1..Len(gen.pending) : gen.pending[k].stage = stage

\* C24: in one run at most one external call is in flight; analysis calls
\* go in file order and are all settled before the first compile call;
\* compile calls go in chunk order; the standardization call is made at most
\* once and only after compile has returned.
C24_CallsTotallyOrdered ==
  /\ InFlight <= 1
  /\ \A k \in 1..Len(AnalysisCalls) : AnalysisCalls[k].file = gen.files[k]
  /\ PendingStage("analysis")
       => /\ gen.pending[1].file = gen.files[Len(AnalysisCalls) + 1]
          /\ calls = <<>> /\ cpc = "idle"
          /\ StandardizeCalls = <<>>
  /\ cpc # "idle"
       => /\ InFlight = 0 \/ cpc = "returned"
          /\ Len(AnalysisCalls) = Len(gen.files)
          /\ ~PendingStage("analysis")
  /\ \A i, j \in 1..Len(calls) : i < j => calls[i].chunk <= calls[j].chunk
  /\ Len(StandardizeCalls) + (IF PendingStage("standardize") THEN 1 ELSE 0) <= 1
  /\ PendingStage("standardize") \/ StandardizeCalls # <<>>
       => /\ cpc = "returned"
          /\ Len(AnalysisCalls) = Len(gen.files)
          /\ \A k \in 1..Len(llm) : llm[k].stage = "standardize" => k = Len(llm)

\* C24 witness: a finished run with two analysis calls, then at least two
\* compile calls, then the standardization call
C24_Witness ==
  /\ gen.pc = "done"
  /\ Len(AnalysisCalls) = 2
  /\ Len(calls) >= 2
  /\ Len(StandardizeCalls) = 1
  /\ InFlight = 0

(***************************************************************************)
(* Properties of initConfig, checked under ConfigSpec                      *)
(***************************************************************************)
Required == {REQUIRED_ENV_VARIABLES[k] : k \in 1..Len(REQUIRED_ENV_VARIABLES)}

HadValue(name) == cfg.initial[name] # <<>> /\ cfg.initial[name] # <<"">>

\* C26: initConfig asks the user only for required variables that were
\* unset or empty, asks nothing when every required variable had a value,
\* and leaves every variable that had a value as it was.
C26_PromptsOnlyMissing ==
  cfg.pc # "idle"
    => /\ \A k \in 1..Len(cfg.prompted) :
            cfg.prompted[k] \in Required /\ ~HadValue(cfg.prompted[k])
       /\ (\A name \in Required : HadValue(name)) => cfg.prompted = <<>>
       /\ \A name \in EnvNames : HadValue(name) => cfg.env[name] = cfg.initial[name]
       /\ \A name \in EnvNames \ Required :
            cfg.initial[name] # <<>> => cfg.env[name] = cfg.initial[name]

\* C26 witness: the key was empty and was asked for, while the other
\* variable kept its value although the .env file holds another one
C26_Witness ==
  /\ cfg.pc = "done"
  /\ cfg.initial["OPENAI_API_KEY"] = <<"">>
  /\ cfg.prompted = <<"OPENAI_API_KEY">>
  /\ cfg.env["OPENAI_API_KEY"] = <<"typed">>
  /\ cfg.file["OTHER"] = <<"from file">>
  /\ cfg.env["OTHER"] = <<"from env">>

(***************************************************************************)
(* Properties of the command-line run, checked under RunSpec               *)
(***************************************************************************)
\* an external text-generation call has been issued in this run
CallIssued ==
  \/ llm # <<>>
  \/ calls # <<>>
  \/ gen.pc # "idle" /\ gen.pending # <<>>

\* C25 as stated: a run without --directory issues no external call, writes
\* no file and does not end with a status other than 1.
C25_NoDirectoryNoCall ==
  cli.args.directory = <<>>
    => /\ ~CallIssued
       /\ cli.written = <<>>
       /\ cli.exit \in {<<>>, <<1>>}

\* C25 on the analysis path: a run without --directory and without --standardize issues
\* no external call, never calls generateReport, writes no file and ends
\* only through exit status 1.
C25_NoDirectoryNoCallInAnalysisMode ==
  cli.args.directory = <<>> /\ ~cli.args.standardize
    => /\ ~CallIssued
       /\ gen.pc = "idle"
       /\ cli.written = <<>>
       /\ cli.exit \in {<<>>, <<1>>}
       /\ cli.pc # "returned"

\* C25 on the analysis path, reached: a run without --directory was ended by validateArgs
C25_Witness ==
  /\ cli.args.directory = <<>>
  /\ ~cli.args.standardize
  /\ cli.pc = "exited"
  /\ cli.exit = <<1>>
  /\ cfg.pc = "done"

\* C29: whenever an external call has been issued in a run, initConfig has
\* completed before.
C29_ConfigBeforeFirstCall == CallIssued => cfg.pc = "done"

(***************************************************************************)
(* Properties of the result of generateReport, checked under ReportSpec    *)
(***************************************************************************)
\* the durations compile pushed onto chunkProcessingTimes: one per chunk
\* whose call returned, each of the unit length the model gives a call
ChunkDurations == [k \in {j \in 1..Len(calls) : calls[j].ok} |-> 1]

\* a run that returned a result with a performance record
Measured == output.set /\ ~output.caught /\ "performance" \in DOMAIN output

\* C27: the reported chunk-processing metrics are derived from the durations
\* compile measured: as many durations as chunks processed, and their sum.
C27_ChunkMetricsFromChunkDurations ==
  Measured =>
    /\ output.performance.averageChunkProcessingTime.over = Cardinality(DOMAIN ChunkDurations)
    /\ output.performance.chunkProcessingTime = Cardinality(DOMAIN ChunkDurations)

\* generateReport returned after compile returned
ReturnedAfterCompile == gen.pc = "done" /\ cpc = "returned" /\ output.set /\ ~output.caught

\* C28: when compile returned an empty or blank report, no standardization
\* call was issued and the result is the fixed apology with the preliminary
\* analysis; otherwise the report returned is the standardizer's output for
\* the compiled report.
C28_ApologyOrStandardizerOutput ==
  ReturnedAfterCompile =>
    /\ output.preliminaryAnalysis = gen.preliminaryAnalysis
    /\ IF result = <<>> \/ IsBlank(result)
         THEN /\ StandardizeCalls = <<>>
              /\ gen.standardization = <<>>
              /\ output.report = EmptyReportApology
         ELSE /\ Len(StandardizeCalls) = 1
              /\ StandardizeCalls[1].text = result
              /\ Len(gen.standardization) = 1
              /\ output.report = gen.standardization[1].standardizedReport
              /\ output.report =
                   standardizeReport(result, StandardizeCalls[1].ok, 0).standardizedReport

\* C28 witness: compile returned an empty report after issuing a call and
\* generateReport returned the apology
C28_Witness ==
  /\ ReturnedAfterCompile
  /\ result = <<>>
  /\ calls # <<>>
  /\ output.report = EmptyReportApology

(***************************************************************************)
(* Properties of the Loader, checked under LoaderSpec                      *)
(***************************************************************************)
\* Loader.load has finished, by resolving or by rejecting
LoadFinished == loader.pc \in {"resolved", "rejected"}

\* the loader is stopped
Stopped == ~loader.interval /\ loader.frameIndex = 0 /\ loader.timers = 0

\* a call of start on a running loader throws and changes none of its fields
StartOnRunningChangesNothing ==
  loader.pc = "free" /\ loader.interval /\ CallStart
    => loader' = [loader EXCEPT !.last = "threw"]

\* C30: a loader has at most one active timer, a start on a running loader
\* throws without changing its state, and when Loader.load has finished,
\* by returning or by throwing, its loader is stopped.
C30_OneTimerAndLoadStops ==
  /\ [](loader.timers <= 1 /\ (LoadFinished => Stopped))
  /\ [][StartOnRunningChangesNothing]_vars

\* the parts of C30 that hold: one timer at most, start on a running loader
\* changes nothing, and a load that resolved or whose start threw is stopped
C30_OneTimerAndResolvedLoadStops ==
  /\ [](loader.timers <= 1 /\ (loader.interval <=> loader.timers = 1))
  /\ [](LoadFinished /\ loader.last # "callback threw" => Stopped)
  /\ [][StartOnRunningChangesNothing]_vars

====
